---- MODULE Spec2Model ----
(***************************************************************************)
(* k-core peeling, naive and bucket-sort coreness, coreness anomaly        *)
(* ranking and k-truss peeling of dachshund's Coreness trait               *)
(* (src/dachshund/algorithms/coreness.rs), over undirected simple graphs   *)
(* (SimpleNode of src/dachshund/node.rs: a node id plus a BTreeSet of      *)
(* neighbour ids, so no duplicate edges).                                  *)
(***************************************************************************)
EXTENDS FiniteSets, Integers, Sequences, TLC

\* Every symmetric graph on nodes 1..n, n <= MaxNodes, is an input.
MaxNodes == 4
\* get_k_cores and get_k_trusses are called with k in 0..MaxK.
MaxK == 4

\* usize arithmetic: a subtraction below zero panics when the build has
\* overflow checks and wraps modulo 2^w otherwise.  usize is at least 16
\* bits wide; every width gives the same comparisons on graphs this small.
UsizeModulus == 2 ^ 16

Min(S) == CHOOSE x \in S : \A y \in S : x <= y

Max(S) == CHOOSE x \in S : \A y \in S : y <= x

\* ------------------------------------------------------------------------
\* Graphs
\* ------------------------------------------------------------------------

\* Canonical (lesser id, greater id) pairs over nodes 1..n.
CanonicalPairs(n) == {p \in (1..n) \X (1..n) : p[1] < p[2]}

\* SimpleNode.neighbors of every node: id |-> set of neighbour ids.
MakeGraph(n, E) ==
  [v \in 1..n |-> {w \in 1..n : <<v, w>> \in E \/ <<w, v>> \in E}]

\* 4-cycle 1-2-3-4-1.
FourCycle == MakeGraph(4, {<<1, 2>>, <<2, 3>>, <<3, 4>>, <<1, 4>>})

\* Triangle 1,2,3 plus isolated node 4.
TrianglePlusIsolated == MakeGraph(4, {<<1, 2>>, <<2, 3>>, <<1, 3>>})

\* 5-clique.
FiveClique == MakeGraph(5, CanonicalPairs(5))

\* 4-clique 1..4, node 5 tied to 3 and 4, and a tree hanging off node 5:
\* hub 6 with leaves 7 and 8.
HubGraph ==
  MakeGraph(8, CanonicalPairs(4) \cup
               {<<3, 5>>, <<4, 5>>, <<5, 6>>, <<6, 7>>, <<6, 8>>})

\* Node 1 tied to 2, 3, 4, 5 and the 4-cycle 2-3-5-4-2: a 3-core in which
\* the edges of the cycle have one triangle each.
CascadeGraph ==
  MakeGraph(5, {<<1, 2>>, <<1, 3>>, <<1, 4>>, <<1, 5>>,
                <<2, 3>>, <<2, 4>>, <<3, 5>>, <<4, 5>>})

ScenarioGraphs ==
  {FourCycle, TrianglePlusIsolated, FiveClique, HubGraph, CascadeGraph}

Graphs ==
  ScenarioGraphs \cup
  UNION {{MakeGraph(n, E) : E \in SUBSET CanonicalPairs(n)} : n \in 0..MaxNodes}

VARIABLES
  graph,            \* the graph: node id |-> neighbour ids
  op,               \* the entry point the caller runs
  pc,               \* position inside the running entry point
  build,            \* "any" until a usize underflow decides "debug"/"release"
  k,                \* threshold of the running peel
  removed,          \* removed: FxHashSet<NodeId>
  queue,            \* queue: OrderedNodeSet
  num_neighbors,    \* num_neighbors: HashMap<NodeId, usize>
  result,           \* components returned by the last _get_k_cores
  prev,             \* <<k, node set>> of the caller's earlier get_k_cores
  core_assignments, \* get_coreness: one partition per round
  coreness,         \* get_coreness: node id |-> coreness (keys = DOMAIN)
  fast_coreness,    \* get_coreness_fast: coreness (current estimates)
  nodes,            \* get_coreness_fast: nodes, the ordering (0-based Vec)
  bin_starts,       \* get_coreness_fast: bin_starts (0-based Vec)
  node_idx,         \* get_coreness_fast: node id |-> position in nodes
  neighbors,        \* get_coreness_fast: live adjacency sets
  i,                \* get_coreness_fast: position being scanned
  node_nbrs,        \* get_coreness_fast: neighbours of nodes[i] still to visit
  truss_k,          \* get_k_trusses: k
  truss_neighbors,  \* _get_k_trusses: neighbors, the live neighbour sets
  edges,            \* _get_k_trusses: edges: OrderedEdgeSet
  ignore_edges,     \* _get_k_trusses: ignore_edges
  changes,          \* _get_k_trusses: changes
  sweeps,           \* _get_k_trusses: iterations of the while loop so far
  last_removed,     \* _get_k_trusses: to_remove of the latest sweep
  trusses,          \* returned filtered_trusses: component |-> edge set
  truss_nodes,      \* returned truss_nodes
  in_coreness,      \* get_coreness_anomaly: the coreness map passed in
  core_ranks,       \* get_coreness_anomaly: core_ranks
  deg_ranks,        \* get_coreness_anomaly: deg_ranks
  anomaly_scores    \* get_coreness_anomaly: anomaly_scores

peelVars == <<k, removed, queue, num_neighbors, result>>

naiveVars == <<prev, core_assignments, coreness>>

fastVars ==
  <<fast_coreness, nodes, bin_starts, node_idx, neighbors, i, node_nbrs>>

trussVars ==
  <<truss_k, truss_neighbors, edges, ignore_edges, changes, sweeps,
    last_removed, trusses, truss_nodes>>

anomalyVars == <<in_coreness, core_ranks, deg_ranks, anomaly_scores>>

vars ==
  <<graph, op, pc, build, peelVars, naiveVars, fastVars, trussVars,
    anomalyVars>>

NodeIds == DOMAIN graph

degree(g, v) == Cardinality(g[v])

count_nodes(g) == Cardinality(DOMAIN g)

\* Least degree inside the subgraph of g induced by the node set S.
MinDegreeIn(g, S) == Min({Cardinality(g[u] \cap S) : u \in S})

\* Coreness of v: the largest k such that v belongs to a subgraph in which
\* every node has degree >= k.
TrueCoreness(g, v) ==
  Max({MinDegreeIn(g, S) : S \in {T \in SUBSET DOMAIN g : v \in T}})

\* ------------------------------------------------------------------------
\* Connected components (the external collaborator)
\* ------------------------------------------------------------------------

RECURSIVE Reach(_, _, _, _)
\* Nodes reachable from the frontier S through nodes of live, never
\* crossing an edge of cut (canonical pairs).
Reach(g, S, live, cut) ==
  LET step == S \cup {w \in live : \E v \in S :
                        /\ w \in g[v]
                        /\ <<v, w>> \notin cut
                        /\ <<w, v>> \notin cut}
  IN IF step = S THEN S ELSE Reach(g, step, live, cut)

\* _get_connected_components(Some(removed), None): the partition of the
\* nodes outside rem into connected components.
_get_connected_components(g, rem) ==
  LET live == DOMAIN g \ rem
  IN {Reach(g, {v}, live, {}) : v \in live}

\* ------------------------------------------------------------------------
\* usize subtraction
\* ------------------------------------------------------------------------

\* x - y on usize: the wrapped value, and whether it went below zero.
usize_sub(x, y) ==
  [val |-> (x - y + UsizeModulus) % UsizeModulus, under |-> x < y]

\* ------------------------------------------------------------------------
\* _get_k_cores
\* ------------------------------------------------------------------------

RECURSIVE VisitEdges(_, _, _, _)
\* for e in self.get_node(id).get_edges(): the neighbours es still to
\* visit, in ascending id order; st carries queue, num_neighbors and
\* whether a decrement went below zero.
VisitEdges(id, es, rem, st) ==
  IF es = {} THEN st
  ELSE
    LET nid == Min(es)
        rest == es \ {nid}
    IN IF nid \notin rem
       THEN LET d1 == usize_sub(st.num_neighbors[id], 1)
                n1 == [st.num_neighbors EXCEPT ![id] = d1.val]
                d2 == usize_sub(n1[nid], 1)
                n2 == [n1 EXCEPT ![nid] = d2.val]
            IN VisitEdges(id, rest, rem,
                 [queue |-> st.queue \cup {nid},
                  num_neighbors |-> n2,
                  under |-> st.under \/ d1.under \/ d2.under])
       ELSE VisitEdges(id, rest, rem, st)

\* Variant of the removal test: a node at exactly the threshold goes too.
BelowOrAtThreshold(n, kk) == n <= kk

\* Variant of the removal test: the operands of the comparison swapped.
ThresholdBelow(n, kk) == kk < n

\* Line 34: the test that decides the removal of the popped node.
BelowThreshold(n, kk) == n < kk

\* One iteration of the while loop: pop the least id, test it, remove it.
PopStep(g, kk, rem, q, nn) ==
  LET id == Min(q)
      q1 == q \ {id}
  IN IF BelowThreshold(nn[id], kk)
     THEN LET rem1 == rem \cup {id}
              st == VisitEdges(id, g[id], rem1,
                      [queue |-> q1, num_neighbors |-> nn, under |-> FALSE])
          IN [removed |-> rem1, queue |-> st.queue,
              num_neighbors |-> st.num_neighbors, under |-> st.under]
     ELSE [removed |-> rem, queue |-> q1, num_neighbors |-> nn,
           under |-> FALSE]

\* The initial counter of every node at the start of a peel.
InitialCount(g, v) == degree(g, v)

\* Lines 25-29: the queue holds every id, every counter the node's degree.
BeginPeel(kk, rem) ==
  /\ k' = kk
  /\ removed' = rem
  /\ queue' = NodeIds
  /\ num_neighbors' = [v \in NodeIds |-> InitialCount(graph, v)]
  /\ result' = {}
  /\ pc' = "peel"

\* The build modes still possible: decided by the first underflow.
Builds == IF build = "any" THEN {"debug", "release"} ELSE {build}

Pop ==
  /\ pc = "peel"
  /\ queue # {}
  /\ LET r == PopStep(graph, k, removed, queue, num_neighbors)
     IN IF r.under
        THEN \E b \in Builds :
               /\ build' = b
               /\ IF b = "debug"
                  THEN /\ pc' = "panic"
                       /\ UNCHANGED <<removed, queue, num_neighbors>>
                  ELSE /\ pc' = pc
                       /\ removed' = r.removed
                       /\ queue' = r.queue
                       /\ num_neighbors' = r.num_neighbors
        ELSE /\ removed' = r.removed
             /\ queue' = r.queue
             /\ num_neighbors' = r.num_neighbors
             /\ UNCHANGED <<pc, build>>
  /\ UNCHANGED <<graph, op, k, result, naiveVars, fastVars,
                 trussVars, anomalyVars>>

\* Line 46: the queue is empty, the components of the survivors return.
PeelReturn ==
  /\ pc = "peel"
  /\ queue = {}
  /\ result' = _get_connected_components(graph, removed)
  /\ pc' = "returned"
  /\ UNCHANGED <<graph, op, build, k, removed, queue, num_neighbors, naiveVars,
                 fastVars,
                 trussVars, anomalyVars>>

\* ------------------------------------------------------------------------
\* get_k_cores
\* ------------------------------------------------------------------------

NoCall == <<-1, {}>>

\* get_k_cores(kk): a fresh removed set; the caller makes two calls.
GetKCores ==
  /\ op = "get_k_cores"
  /\ \/ pc = "idle"
     \/ pc = "returned" /\ prev = NoCall
  /\ \E kk \in 0..MaxK : BeginPeel(kk, {})
  /\ prev' = IF pc = "returned" THEN <<k, UNION result>> ELSE prev
  /\ UNCHANGED <<graph, op, build, core_assignments, coreness, fastVars,
                 trussVars, anomalyVars>>

\* ------------------------------------------------------------------------
\* get_coreness
\* ------------------------------------------------------------------------

\* Lines 55-57.
GetCoreness ==
  /\ op = "get_coreness"
  /\ pc = "idle"
  /\ k' = 0
  /\ removed' = {}
  /\ core_assignments' = <<>>
  /\ pc' = "loop"
  /\ UNCHANGED <<graph, op, build, queue, num_neighbors, result, prev, coreness,
                 fastVars,
                 trussVars, anomalyVars>>

\* Lines 58-60: another round while some node is not removed.
CorenessRound ==
  /\ op = "get_coreness"
  /\ pc = "loop"
  /\ Cardinality(removed) < count_nodes(graph)
  /\ BeginPeel(k + 1, removed)
  /\ UNCHANGED <<graph, op, build, naiveVars, fastVars,
                 trussVars, anomalyVars>>

\* Line 60: push the partition the peel returned.
CorenessPush ==
  /\ op = "get_coreness"
  /\ pc = "returned"
  /\ core_assignments' = Append(core_assignments, result)
  /\ pc' = "loop"
  /\ UNCHANGED <<graph, op, build, peelVars, prev, coreness, fastVars,
                 trussVars, anomalyVars>>

RECURSIVE AssignCoreness(_, _, _)
\* Lines 63-71: rounds i = j-1 down to 0; a node gets i + 1 (here j) from
\* the first round it appears in and is never overwritten.
AssignCoreness(ca, j, c) ==
  IF j = 0 THEN c
  ELSE
    LET ids == UNION ca[j] \ DOMAIN c
    IN AssignCoreness(ca, j - 1,
         [v \in DOMAIN c \cup ids |-> IF v \in DOMAIN c THEN c[v] ELSE j])

\* Lines 62-72: every node is removed; build the map and return.
CorenessAssign ==
  /\ op = "get_coreness"
  /\ pc = "loop"
  /\ ~(Cardinality(removed) < count_nodes(graph))
  /\ coreness' = AssignCoreness(core_assignments, k, <<>>)
  /\ pc' = "naive_done"
  /\ UNCHANGED <<graph, op, build, peelVars, prev, core_assignments, fastVars,
                 trussVars, anomalyVars>>

\* ------------------------------------------------------------------------
\* get_coreness_fast
\* ------------------------------------------------------------------------

\* A Vec<T> is a function over 0 .. len-1.
VecLen(v) == Cardinality(DOMAIN v)

VecPush(v, x) ==
  [j \in 0..VecLen(v) |-> IF j = VecLen(v) THEN x ELSE v[j]]

VecOf(seq) == [j \in 0..(Len(seq) - 1) |-> seq[j + 1]]

\* Variant of the swap: the first slot is overwritten before it is saved.
VecSwapLost(v, a, b) == [v EXCEPT ![a] = v[b]]

\* Line 143: nodes.swap(a, b).
VecSwap(v, a, b) == [v EXCEPT ![a] = v[b], ![b] = v[a]]

RECURSIVE SortedOrders(_, _)
\* Lines 109-110: the keys of a HashMap come in any order and
\* sort_unstable_by_key keeps no order among equal keys: every ordering of
\* the ids S that ascends in key c is a possible value of nodes.
SortedOrders(S, c) ==
  IF S = {} THEN {<<>>}
  ELSE
    LET m == Min({c[v] : v \in S})
    IN UNION {{<<v>> \o t : t \in SortedOrders(S \ {v}, c)} :
                v \in {u \in S : c[u] = m}}

RECURSIVE PushTimes(_, _, _)
\* Line 88-90: push x once for every value of the range, n times.
PushTimes(v, x, n) ==
  IF n <= 0 THEN v ELSE PushTimes(VecPush(v, x), x, n - 1)

RECURSIVE BinBoundaries(_, _, _, _, _)
\* Lines 84-93: the loop over the positions j of ordered_nodes.
BinBoundaries(ordered_nodes, deg, j, bin_boundaries, current_degree) ==
  IF j >= VecLen(ordered_nodes) THEN bin_boundaries
  ELSE
    LET new_degree == deg[ordered_nodes[j]]
    IN IF new_degree > current_degree
       THEN BinBoundaries(ordered_nodes, deg, j + 1,
              PushTimes(bin_boundaries, j, new_degree - current_degree),
              new_degree)
       ELSE BinBoundaries(ordered_nodes, deg, j + 1, bin_boundaries,
              current_degree)

_init_bin_starts(ordered_nodes, deg) ==
  BinBoundaries(ordered_nodes, deg, 0, VecOf(<<0>>), 0)

\* Lines 102-125: estimates are the degrees, nodes ascend in estimate.
GetCorenessFast ==
  /\ op = "get_coreness"
  /\ pc = "naive_done"
  /\ LET c == [v \in NodeIds |-> degree(graph, v)]
     IN /\ fast_coreness' = c
        /\ \E ord \in SortedOrders(NodeIds, c) :
             /\ nodes' = VecOf(ord)
             /\ bin_starts' = _init_bin_starts(VecOf(ord), c)
             /\ node_idx' = [v \in NodeIds |->
                              (CHOOSE j \in 1..Len(ord) : ord[j] = v) - 1]
  /\ neighbors' = [v \in NodeIds |-> graph[v]]
  /\ i' = 0
  /\ node_nbrs' = {}
  /\ pc' = "scan"
  /\ UNCHANGED <<graph, op, build, peelVars, naiveVars,
                 trussVars, anomalyVars>>

\* Lines 127-129: take the node at position i and a copy of its live
\* neighbours.
FastScan ==
  /\ pc = "scan"
  /\ i < VecLen(nodes)
  /\ node_nbrs' = neighbors[nodes[i]]
  /\ pc' = "nbrs"
  /\ UNCHANGED <<graph, op, build, peelVars, naiveVars, fast_coreness, nodes,
                 bin_starts, node_idx, neighbors, i,
                 trussVars, anomalyVars>>

\* Variant of the relocation test: an equal estimate is lowered too.
MustRelocateOrEqual(nbr_coreness, node_coreness) == nbr_coreness >= node_coreness

\* Line 132: the neighbour is relocated when its estimate is greater.
MustRelocate(nbr_coreness, node_coreness) == nbr_coreness > node_coreness

\* Lines 130-147: one neighbour of the copy, in the set's iteration order
\* (any order).  Lines 137-142 swap the two node_idx entries through raw
\* pointers into the map; no entry is inserted in between, so both point
\* at live entries, and when the neighbour already sits at the start of
\* its bin the two pointers are the same entry and the swap changes nothing.
FastNeighbor ==
  /\ pc = "nbrs"
  /\ \E nbr_id \in node_nbrs :
       LET node_id == nodes[i]
           nbr_coreness == fast_coreness[nbr_id]
       IN /\ node_nbrs' = node_nbrs \ {nbr_id}
          /\ IF MustRelocate(nbr_coreness, fast_coreness[node_id])
             THEN LET nbr_idx == node_idx[nbr_id]
                      nbr_bin_start == bin_starts[nbr_coreness]
                      other == nodes[nbr_bin_start]
                  IN /\ neighbors' = [neighbors EXCEPT
                                        ![nbr_id] = @ \ {node_id}]
                     /\ node_idx' = [node_idx EXCEPT
                                       ![nbr_id] = node_idx[other],
                                       ![other] = node_idx[nbr_id]]
                     /\ nodes' = VecSwap(nodes, nbr_idx, nbr_bin_start)
                     /\ bin_starts' = [bin_starts EXCEPT
                                         ![nbr_coreness] = @ + 1]
                     /\ fast_coreness' = [fast_coreness EXCEPT
                                            ![nbr_id] = @ - 1]
             ELSE UNCHANGED <<neighbors, node_idx, nodes, bin_starts,
                              fast_coreness>>
  /\ UNCHANGED <<graph, op, pc, build, peelVars, naiveVars, i,
                 trussVars, anomalyVars>>

\* Line 127: every neighbour is visited, on to the next position.
FastAdvance ==
  /\ pc = "nbrs"
  /\ node_nbrs = {}
  /\ i' = i + 1
  /\ pc' = "scan"
  /\ UNCHANGED <<graph, op, build, peelVars, naiveVars, fast_coreness, nodes,
                 bin_starts, node_idx, neighbors, node_nbrs,
                 trussVars, anomalyVars>>

\* Lines 151-152: the scan is over, the map returns.
FastReturn ==
  /\ pc = "scan"
  /\ i = VecLen(nodes)
  /\ pc' = "fast_done"
  /\ UNCHANGED <<graph, op, build, peelVars, naiveVars, fastVars,
                 trussVars, anomalyVars>>

\* ------------------------------------------------------------------------
\* get_k_trusses
\* ------------------------------------------------------------------------

\* Lines 264-268: k - 1 on usize, then the peel that fills ignore_nodes
\* (the removed set of the peel).
GetKTrusses ==
  /\ op = "get_k_trusses"
  /\ pc = "idle"
  /\ \E kk \in 0..MaxK :
       LET d == usize_sub(kk, 1)
       IN /\ truss_k' = kk
          /\ IF d.under
             THEN \E b \in Builds :
                    /\ build' = b
                    /\ IF b = "debug"
                       THEN /\ pc' = "panic"
                            /\ UNCHANGED peelVars
                       ELSE BeginPeel(d.val, {})
             ELSE /\ BeginPeel(d.val, {})
                  /\ UNCHANGED build
  /\ UNCHANGED <<graph, op, naiveVars, fastVars, truss_neighbors, edges,
                 ignore_edges, changes, sweeps, last_removed, trusses,
                 truss_nodes, anomalyVars>>

\* Lines 206-214: the canonical pair of an edge.
id_pair(node_id, neighbor_id) ==
  IF node_id < neighbor_id THEN <<node_id, neighbor_id>>
  ELSE <<neighbor_id, node_id>>

\* Lines 193-218: the live neighbour sets leave out the ignored nodes, the
\* edge set holds every edge of the graph.
TrussBegin ==
  /\ op = "get_k_trusses"
  /\ pc = "returned"
  /\ truss_neighbors' = [v \in NodeIds |-> {x \in graph[v] : x \notin removed}]
  /\ edges' = {id_pair(v, w) : v \in NodeIds, w \in NodeIds} \cap
              {p \in NodeIds \X NodeIds : p[2] \in graph[p[1]]}
  /\ changes' = TRUE
  /\ ignore_edges' = {}
  /\ sweeps' = 0
  /\ last_removed' = <<>>
  /\ pc' = "sweep"
  /\ UNCHANGED <<graph, op, build, peelVars, naiveVars, fastVars, truss_k,
                 trusses, truss_nodes, anomalyVars>>

\* The least pair of a BTreeSet<(NodeId, NodeId)>: lexicographic order.
MinPair(es) ==
  CHOOSE e \in es : \A f \in es :
    e[1] < f[1] \/ (e[1] = f[1] /\ e[2] <= f[2])

\* Variant of the support test: one triangle too few is tolerated.
LowSupportOffByOne(count, threshold) == count + 1 < threshold

\* Variant of the support test: an edge at exactly k - 2 goes too.
LowSupportInclusive(count, threshold) == count <= threshold

\* Line 226: the edge goes when its support is below k - 2.
LowSupport(count, threshold) == count < threshold

RECURSIVE SweepEdges(_, _, _, _)
\* Lines 222-231: for (id1, id2) in &edges, in order; the neighbour sets
\* change during the sweep, the edge set after it.
SweepEdges(es, nbrs, to_remove, threshold) ==
  IF es = {} THEN [neighbors |-> nbrs, to_remove |-> to_remove]
  ELSE
    LET e == MinPair(es)
        id1 == e[1]
        id2 == e[2]
        intersection == nbrs[id1] \cap nbrs[id2]
    IN IF LowSupport(Cardinality(intersection), threshold)
       THEN SweepEdges(es \ {e},
              [nbrs EXCEPT ![id1] = @ \ {id2}, ![id2] = @ \ {id1}],
              Append(to_remove, e), threshold)
       ELSE SweepEdges(es \ {e}, nbrs, to_remove, threshold)

Range(f) == {f[x] : x \in DOMAIN f}

\* Variant of the removal: the marked edges stay in the edge set.
EdgesKept(es, to_remove) == es

\* Lines 232-234: the marked edges leave the edge set.
EdgesAfterRemoval(es, to_remove) == es \ Range(to_remove)

\* Lines 219-237: one iteration of while changes.  k - 2 is evaluated for
\* every edge visited, so not at all when the edge set is empty.
Sweep ==
  /\ pc = "sweep"
  /\ changes
  /\ LET d == usize_sub(truss_k, 2)
         r == SweepEdges(edges, truss_neighbors, <<>>, d.val)
         done == /\ truss_neighbors' = r.neighbors
                 /\ last_removed' = r.to_remove
                 /\ edges' = EdgesAfterRemoval(edges, r.to_remove)
                 /\ ignore_edges' = ignore_edges \cup Range(r.to_remove)
                 /\ changes' = (Len(r.to_remove) > 0)
                 /\ sweeps' = sweeps + 1
                 /\ pc' = pc
     IN IF d.under /\ edges # {}
        THEN \E b \in Builds :
               /\ build' = b
               /\ IF b = "debug"
                  THEN /\ pc' = "panic"
                       /\ UNCHANGED <<truss_neighbors, last_removed, edges,
                                      ignore_edges, changes, sweeps>>
                  ELSE done
        ELSE /\ done
             /\ UNCHANGED build
  /\ UNCHANGED <<graph, op, peelVars, naiveVars, fastVars, truss_k, trusses,
                 truss_nodes, anomalyVars>>

\* _get_connected_components_membership(None, Some(&ignore_edges)): every
\* node's component (the index is the component itself), the ignored edges
\* cut.
_get_connected_components_membership(g, cut) ==
  [v \in DOMAIN g |-> Reach(g, {v}, DOMAIN g, cut)]

\* Lines 241-252: the truss of one component.
TrussOf(components, idx, nbrs, es, ignored) ==
  {eid \in {<<id, nid>> : id \in DOMAIN components, nid \in DOMAIN components} :
     /\ components[eid[1]] = idx
     /\ eid[2] \in nbrs[eid[1]]
     /\ components[eid[2]] = idx
     /\ eid[1] < eid[2]
     /\ eid \notin ignored
     /\ eid \in es}

\* Lines 238-259: no sweep removed an edge; one truss per component, the
\* empty ones dropped, and the node set of every truss.
TrussFinish ==
  /\ pc = "sweep"
  /\ ~changes
  /\ LET components == _get_connected_components_membership(graph, ignore_edges)
         all == [idx \in Range(components) |->
                   TrussOf(components, idx, truss_neighbors, edges, ignore_edges)]
         filtered_trusses == [idx \in {c \in DOMAIN all : all[c] # {}} |-> all[idx]]
     IN /\ trusses' = filtered_trusses
        /\ truss_nodes' = {{e[1] : e \in y} \cup {e[2] : e \in y} :
                             y \in Range(filtered_trusses)}
  /\ pc' = "truss_done"
  /\ UNCHANGED <<graph, op, build, peelVars, naiveVars, fastVars, truss_k,
                 truss_neighbors, edges, ignore_edges, changes, sweeps,
                 last_removed, anomalyVars>>

\* ------------------------------------------------------------------------
\* get_coreness_anomaly
\* ------------------------------------------------------------------------

RECURSIVE DescendingOrders(_, _)
\* Lines 178-179: scores.iter() yields the entries of a HashMap in any
\* order and sort_unstable_by_key(Reverse(value)) keeps no order among
\* ties: every ordering of the keys that descends in value is possible.
DescendingOrders(S, scores) ==
  IF S = {} THEN {<<>>}
  ELSE
    LET m == Max({scores[v] : v \in S})
    IN UNION {{<<v>> \o t : t \in DescendingOrders(S \ {v}, scores)} :
                v \in {u \in S : scores[u] = m}}

\* Lines 180-185: ranks 1, 2, ... in sorted order.
RankingOf(sorted_nodes) ==
  [node \in Range(sorted_nodes) |->
     CHOOSE j \in 1..Len(sorted_nodes) : sorted_nodes[j] = node]

\* The rankings _averaged_ties_ranking can return for scores.
_averaged_ties_ranking(scores) ==
  {RankingOf(o) : o \in DescendingOrders(DOMAIN scores, scores)}

\* |ln a - ln b| = ln(hi / lo): the score is kept as the pair <<hi, lo>>.
AbsLogDiff(a, b) == IF a >= b THEN <<a, b>> ELSE <<b, a>>

\* ln(hi / lo) = 0.0 exactly when hi = lo.
IsZeroScore(sc) == sc[1] = sc[2]

\* Line 162: the caller passes the coreness map of the graph.
GetCorenessAnomaly ==
  /\ op = "get_coreness_anomaly"
  /\ pc = "idle"
  /\ in_coreness' = [v \in NodeIds |-> TrueCoreness(graph, v)]
  /\ \E r \in _averaged_ties_ranking(in_coreness') : core_ranks' = r
  /\ pc' = "core_ranked"
  /\ UNCHANGED <<graph, op, build, peelVars, naiveVars, fastVars, trussVars,
                 deg_ranks, anomaly_scores>>

\* Lines 163-168: the ranking of a second, freshly collected map of degrees.
RankDegrees ==
  /\ pc = "core_ranked"
  /\ \E r \in _averaged_ties_ranking([v \in NodeIds |-> degree(graph, v)]) :
       deg_ranks' = r
  /\ pc' = "deg_ranked"
  /\ UNCHANGED <<graph, op, build, peelVars, naiveVars, fastVars, trussVars,
                 in_coreness, core_ranks, anomaly_scores>>

\* Lines 169-172.
AnomalyScores ==
  /\ pc = "deg_ranked"
  /\ anomaly_scores' = [node \in NodeIds |->
                          AbsLogDiff(core_ranks[node], deg_ranks[node])]
  /\ pc' = "anomaly_done"
  /\ UNCHANGED <<graph, op, build, peelVars, naiveVars, fastVars, trussVars,
                 in_coreness, core_ranks, deg_ranks>>

\* ------------------------------------------------------------------------

InitState ==
  /\ graph \in Graphs
  /\ pc = "idle"
  /\ build = "any"
  /\ k = 0
  /\ removed = {}
  /\ queue = {}
  /\ num_neighbors = <<>>
  /\ result = {}
  /\ prev = NoCall
  /\ core_assignments = <<>>
  /\ coreness = <<>>
  /\ fast_coreness = <<>>
  /\ nodes = <<>>
  /\ bin_starts = <<>>
  /\ node_idx = <<>>
  /\ neighbors = <<>>
  /\ i = 0
  /\ node_nbrs = {}
  /\ truss_k = 0
  /\ truss_neighbors = <<>>
  /\ edges = {}
  /\ ignore_edges = {}
  /\ changes = FALSE
  /\ sweeps = 0
  /\ last_removed = <<>>
  /\ trusses = <<>>
  /\ truss_nodes = {}
  /\ in_coreness = <<>>
  /\ core_ranks = <<>>
  /\ deg_ranks = <<>>
  /\ anomaly_scores = <<>>

\* The caller either calls get_k_cores twice, or get_coreness and then
\* get_coreness_fast on the same graph.
Init ==
  /\ InitState
  /\ op \in {"get_k_cores", "get_coreness"}

Next ==
  \/ GetKCores
  \/ Pop
  \/ PeelReturn
  \/ GetCoreness
  \/ CorenessRound
  \/ CorenessPush
  \/ CorenessAssign
  \/ GetCorenessFast
  \/ FastScan
  \/ FastNeighbor
  \/ FastAdvance
  \/ FastReturn

Spec == Init /\ [][Next]_vars

\* The caller calls get_k_trusses(k).
InitTruss ==
  /\ InitState
  /\ op = "get_k_trusses"

NextTruss ==
  \/ GetKTrusses
  \/ Pop
  \/ PeelReturn
  \/ TrussBegin
  \/ Sweep
  \/ TrussFinish

SpecTruss == InitTruss /\ [][NextTruss]_vars

\* The caller calls get_coreness_anomaly with the graph's coreness map.
InitAnomaly ==
  /\ InitState
  /\ op = "get_coreness_anomaly"

NextAnomaly ==
  \/ GetCorenessAnomaly
  \/ RankDegrees
  \/ AnomalyScores

SpecAnomaly == InitAnomaly /\ [][NextAnomaly]_vars

\* ------------------------------------------------------------------------
\* Properties
\* ------------------------------------------------------------------------

\* Number of edges from v to nodes outside rem.
LiveDegree(v, rem) == Cardinality(graph[v] \ rem)

\* C1: when a peel returns (fresh removed set, or one filled by the
\* earlier rounds of get_coreness), no node outside removed has fewer than
\* k edges to nodes outside removed, and the returned components hold
\* exactly the nodes outside removed.
PeelReturnsKCore ==
  (pc = "returned" /\ op \in {"get_k_cores", "get_coreness"}) =>
    /\ \A v \in NodeIds \ removed : LiveDegree(v, removed) >= k
    /\ UNION result = NodeIds \ removed

\* C2: the map of get_coreness and the map of get_coreness_fast are equal:
\* same keys, same value for every node.
CorenessMapsAgree ==
  pc = "fast_done" => coreness = fast_coreness

FastRunning == pc \in {"scan", "nbrs", "fast_done"}

\* C3: in get_coreness_fast every estimate starts at the degree, only ever
\* decreases, never drops below the true coreness, and after the full scan
\* equals the true coreness.
FastStep ==
  /\ (pc' = "scan" /\ pc = "naive_done") =>
       \A v \in NodeIds : fast_coreness'[v] = degree(graph, v)
  /\ (FastRunning /\ FastRunning') =>
       \A v \in NodeIds : fast_coreness'[v] <= fast_coreness[v]
  /\ FastRunning' =>
       /\ DOMAIN fast_coreness' = NodeIds
       /\ \A v \in NodeIds : fast_coreness'[v] >= TrueCoreness(graph, v)
  /\ pc' = "fast_done" =>
       \A v \in NodeIds : fast_coreness'[v] = TrueCoreness(graph, v)

FastCorenessExact == [][FastStep]_vars

\* C3 witness: the scan is over and lowered some estimate below the degree.
FastLoweredEstimate ==
  /\ pc = "fast_done"
  /\ \E v \in NodeIds : fast_coreness[v] < degree(graph, v)
  /\ \A v \in NodeIds : fast_coreness[v] = TrueCoreness(graph, v)

\* The rounds of get_coreness (1-based k) whose partition holds v.
SurvivedRounds(v) ==
  {j \in 1..Len(core_assignments) : v \in UNION core_assignments[j]}

\* C4: the map of get_coreness has an entry for every node: the greatest k
\* at which the node survived the peel, and 0 for a node that survived
\* none; on the triangle plus isolated node 4 it is 1->2, 2->2, 3->2, 4->0.
NaiveMapTotal ==
  pc = "naive_done" =>
    /\ DOMAIN coreness = NodeIds
    /\ \A v \in NodeIds : coreness[v] = Max(SurvivedRounds(v) \cup {0})
    /\ graph = TrianglePlusIsolated =>
         coreness = [v \in 1..4 |-> IF v = 4 THEN 0 ELSE 2]

\* The edge sets of the returned trusses.
TrussSets == {trusses[c] : c \in DOMAIN trusses}

\* The end points of the edges of t.
EndPoints(t) == {e[1] : e \in t} \cup {e[2] : e \in t}

\* C5: for k >= 2, every edge (u, v) of a returned truss has at least
\* k - 2 nodes w of that truss with (u, w) and (v, w) both edges.
TrussEdgeSupport ==
  (pc = "truss_done" /\ truss_k >= 2) =>
    \A t \in TrussSets : \A e \in t :
      Cardinality({w \in EndPoints(t) :
                     w \in graph[e[1]] /\ w \in graph[e[2]]}) >= truss_k - 2

\* C5 witness: a truss is returned for k >= 3 after edges of a node that
\* stays in the truss were peeled off.
TrussAfterPeeling ==
  /\ pc = "truss_done"
  /\ truss_k >= 3
  /\ \E t \in TrussSets : \E e \in ignore_edges : e[1] \in EndPoints(t)

\* The canonical edges of the graph.
AllEdges == {p \in NodeIds \X NodeIds : p[1] < p[2] /\ p[2] \in graph[p[1]]}

\* Triangles through e made of edges of S.
SupportIn(S, e) ==
  Cardinality({w \in NodeIds :
                 /\ id_pair(e[1], w) \in S
                 /\ id_pair(e[2], w) \in S})

\* The maximal edge set in which every edge has support >= s.
MaximalTruss(s) ==
  UNION {S \in SUBSET AllEdges : \A e \in S : SupportIn(S, e) >= s}

RECURSIVE EdgeComponent(_, _)
\* The edges of S joined to the edges F through shared end points.
EdgeComponent(S, F) ==
  LET step == F \cup {e \in S : \E f \in F : {e[1], e[2]} \cap {f[1], f[2]} # {}}
  IN IF step = F THEN F ELSE EdgeComponent(S, step)

\* C6: for k >= 2 the returned edge sets are non-empty, pairwise disjoint,
\* one per connected component of the surviving edges, and their union is
\* the maximal set whose every edge is in at least k - 2 triangles of the
\* set; the 5-clique at k = 3 gives one truss of 10 edges and 5 nodes.
TrussesAreMaximal ==
  (pc = "truss_done" /\ truss_k >= 2) =>
    /\ \A c \in DOMAIN trusses : trusses[c] # {}
    /\ \A c, d \in DOMAIN trusses : c # d => trusses[c] \cap trusses[d] = {}
    /\ UNION TrussSets = MaximalTruss(truss_k - 2)
    /\ \A c \in DOMAIN trusses :
         \A e \in trusses[c] : trusses[c] = EdgeComponent(UNION TrussSets, {e})
    /\ truss_nodes = {EndPoints(t) : t \in TrussSets}
    /\ (graph = FiveClique /\ truss_k = 3) =>
         /\ TrussSets = {CanonicalPairs(5)}
         /\ truss_nodes = {1..5}

\* C6 witness: the 5-clique at k = 3 returned one truss of 10 edges.
FiveCliqueTruss ==
  /\ pc = "truss_done"
  /\ graph = FiveClique
  /\ truss_k = 3
  /\ Cardinality(DOMAIN trusses) = 1
  /\ \A c \in DOMAIN trusses : Cardinality(trusses[c]) = 10

\* C7: get_k_trusses(k) with k < 2 is rejected before any peeling: neither
\* k - 1 nor k - 2 is evaluated with a result below zero, no peel starts
\* and no truss result is produced.
SmallKRejected ==
  (op = "get_k_trusses" /\ pc # "idle" /\ truss_k < 2) =>
    /\ build = "any"
    /\ pc \notin {"peel", "returned", "sweep", "truss_done"}

\* All nodes have the same degree and the same coreness.
RegularGraph ==
  /\ \A u, v \in NodeIds : degree(graph, u) = degree(graph, v)
  /\ \A u, v \in NodeIds : in_coreness[u] = in_coreness[v]

\* C8: on a graph whose nodes all have the same degree and the same
\* coreness, get_coreness_anomaly scores every node 0: each node has the
\* same rank by coreness as by degree.
RegularGraphScoresZero ==
  (pc = "anomaly_done" /\ RegularGraph) =>
    \A v \in NodeIds :
      /\ IsZeroScore(anomaly_scores[v])
      /\ core_ranks[v] = deg_ranks[v]

\* C9: a node enters removed only during a peel and only when the number
\* of its edges to nodes not yet removed is strictly below k (so never at
\* live degree k, and never when k = 0).
RemovalStep ==
  \A v \in removed' \ removed :
    /\ pc = "peel"
    /\ LiveDegree(v, removed) < k

RemovedOnlyBelowK == [][RemovalStep]_vars

\* C9 witness: a peel returned having removed a node and kept a node whose
\* live degree is exactly k.
KeptAtExactlyK ==
  /\ pc = "returned"
  /\ removed # {}
  /\ \E v \in NodeIds \ removed : LiveDegree(v, removed) = k

\* C10: for k1 <= k2 the nodes of get_k_cores(k2) are a subset of, and no
\* more than, the nodes of get_k_cores(k1).
KCoresMonotone ==
  (op = "get_k_cores" /\ pc = "returned" /\ prev # NoCall) =>
    LET lo == IF prev[1] <= k THEN prev[2] ELSE UNION result
        hi == IF prev[1] <= k THEN UNION result ELSE prev[2]
    IN /\ hi \subseteq lo
       /\ Cardinality(hi) <= Cardinality(lo)

\* C10 witness: the second call, at a greater k, returned strictly fewer
\* nodes than the first, and not none.
KCoresShrank ==
  /\ op = "get_k_cores"
  /\ pc = "returned"
  /\ prev # NoCall
  /\ prev[1] < k
  /\ UNION result # {}
  /\ UNION result # prev[2]
  /\ UNION result \subseteq prev[2]

\* The nodes stored at positions from .. end of the ordering.
NodesFrom(from) == {nodes[j] : j \in {x \in DOMAIN nodes : x >= from}}

\* Greatest degree of the graph (0 without nodes).
MaxDegree == Max({degree(graph, v) : v \in NodeIds} \cup {0})

\* For every bucket value v the nodes of estimate >= v are the nodes at
\* positions bin_starts[v] .. end.
BinsPartition ==
  /\ DOMAIN bin_starts = 0..MaxDegree
  /\ \A v \in DOMAIN bin_starts :
       {n \in NodeIds : fast_coreness[n] >= v} = NodesFrom(bin_starts[v])

\* The ordering ascends in current estimate, node_idx is its inverse.
OrderingSorted ==
  /\ \A a, b \in DOMAIN nodes :
       a < b => fast_coreness[nodes[a]] <= fast_coreness[nodes[b]]
  /\ \A n \in NodeIds : nodes[node_idx[n]] = n

\* C11: in get_coreness_fast, after the initialisation and after every
\* relocation of a neighbour, the nodes of estimate >= v are exactly the
\* nodes at positions bin_starts[v] .. end for every v in 0 .. max degree,
\* the ordering is sorted by estimate, and a relocated neighbour sits
\* strictly after the position being scanned.
BinsStep ==
  /\ FastRunning' => (BinsPartition' /\ OrderingSorted')
  /\ (FastRunning /\ FastRunning') =>
       \A n \in NodeIds :
         fast_coreness'[n] # fast_coreness[n] => node_idx'[n] > i

BinsStayPartitioned == [][BinsStep]_vars

\* C11 witness: during the scan a neighbour was relocated: its estimate
\* is below its degree, it sits after the scanned position, and the start
\* of the bucket it left is the position right after it.
NeighbourRelocated ==
  /\ pc = "nbrs"
  /\ BinsPartition
  /\ \E n \in NodeIds :
       /\ fast_coreness[n] < degree(graph, n)
       /\ node_idx[n] > i
       /\ bin_starts[fast_coreness[n] + 1] = node_idx[n] + 1

\* C12: in every run of _get_k_cores (those of get_coreness included) the
\* num_neighbors counter of every node still outside removed is the number
\* of its edges to nodes outside removed, and no decrement takes a counter
\* below zero.
CountersAreLive ==
  (pc = "peel" /\ op \in {"get_k_cores", "get_coreness"}) =>
    /\ build = "any"
    /\ \A v \in NodeIds \ removed : num_neighbors[v] = LiveDegree(v, removed)

\* What a step of the sweep loop does to the edge set.
SweepStep ==
  (pc = "sweep" /\ pc' = "sweep" /\ truss_k >= 2) =>
    /\ edges' \subseteq edges
    /\ changes' <=> (edges' # edges)
    /\ changes' <=> (Len(last_removed') > 0)
    /\ edges' = edges \ Range(last_removed')

\* Where the sweep loop stands.
SweepBound ==
  (pc \in {"sweep", "truss_done"} /\ truss_k >= 2) =>
    /\ sweeps <= Cardinality(AllEdges) + 1
    /\ (pc = "truss_done" \/ ~changes) =>
         \A e \in edges : SupportIn(edges, e) >= truss_k - 2

\* C13: for k >= 2 the sweep loop of _get_k_trusses terminates: every sweep
\* but the last removes an edge (the edge set, finite, strictly shrinks),
\* the last removes none and ends the loop, there are at most (number of
\* canonical edges + 1) sweeps, no step panics, and at the fixpoint no
\* remaining edge has support below k - 2.
SweepsTerminate ==
  [][/\ SweepStep
     /\ SweepBound'
     /\ (pc = "sweep" /\ truss_k >= 2) => pc' \in {"sweep", "truss_done"}
     /\ (pc = "sweep" /\ pc' = "truss_done") => ~changes
     /\ (pc = "sweep" /\ pc' = "sweep" /\ truss_k >= 2) => changes]_vars

\* C13 witness: the loop ended after two sweeps that removed edges and a
\* last one that removed none.
ThreeSweeps ==
  /\ pc = "truss_done"
  /\ truss_k >= 2
  /\ sweeps = 3
  /\ edges # AllEdges
====
